---- MODULE Spec2Model ----
(***************************************************************************)
(* Model of app.py: the prompt builder (generate_prompt), the inference    *)
(* client (get_ai_completion), the response parser (parse_output) and the  *)
(* generation loop of the Streamlit script.                                *)
(*                                                                         *)
(* Python strings that the code slices (split / strip / concatenation) are *)
(* sequences of one-character strings.  The prompt, which the code only    *)
(* assembles from literals and interpolated values, is a sequence of       *)
(* fragments.                                                              *)
(***************************************************************************)
EXTENDS Integers, Sequences, FiniteSets, TLC

VARIABLES
    hf_api_key,      \* st.secrets["HF_API_TOKEN"] as read by the script
    platform,        \* sidebar selectbox
    image_type,      \* sidebar radio
    add_cta,         \* sidebar checkbox
    cta_text,        \* sidebar text input ("" while add_cta is off)
    uploaded_files,  \* file uploader: sequence of [name, data]
    results,         \* st.session_state['results']
    pc,              \* position of the script run: "idle" or "loop"
    i,               \* enumerate() index of the generation loop
    banner,          \* what the last script run displayed
    requests_log,    \* outbound POSTs of the latest run that passed the token check
    args,            \* unit specifications: the arguments of the call
    ret              \* unit specifications: what the call returned or raised

vars == <<hf_api_key, platform, image_type, add_cta, cta_text, uploaded_files,
          results, pc, i, banner, requests_log, args, ret>>

app_vars == <<hf_api_key, platform, image_type, add_cta, cta_text, uploaded_files,
              results, pc, i, banner, requests_log>>

(***************************************************************************)
(* Bounds                                                                  *)
(***************************************************************************)
MaxUploads == 2
MaxPieces == 4

(***************************************************************************)
(* String literals of the source                                           *)
(***************************************************************************)
SEO_HEADER == <<"#","#","#"," ","S","E","O"," ","F","i","l","e","n","a","m","e">>

SECTION_MARK == <<"#","#","#">>

FALLBACK_FILENAME == <<"s","e","o","-","f","r","i","e","n","d","l","y","-","f","i","l","e","n","a","m","e",".","j","p","g">>

ROLE_MARKER == <<"A","S","S","I","S","T","A","N","T",":">>

ERR_STATUS == <<"E","r","r","o","r",":"," ","R","e","c","e","i","v","e","d"," ","s","t","a","t","u","s"," ","c","o","d","e"," ">>

ERR_RESPONSE == <<"\n","R","e","s","p","o","n","s","e",":"," ">>

ERR_REQUEST == <<"A","n"," ","e","r","r","o","r"," ","o","c","c","u","r","r","e","d"," ","d","u","r","i","n","g"," ","t","h","e"," ","A","P","I"," ","r","e","q","u","e","s","t",":"," ">>

ERR_UNKNOWN == <<"A","n"," ","u","n","k","n","o","w","n"," ","e","r","r","o","r"," ","o","c","c","u","r","r","e","d",":"," ">>

(***************************************************************************)
(* Python str operations                                                   *)
(***************************************************************************)
\* the characters str.strip() removes
Whitespace == {" ", "\t", "\n", "\r", "\f"}

\* s[j : j + len(sep)] == sep  (j is 1-based)
MatchAt(s, sep, j) ==
    /\ j >= 1
    /\ j + Len(sep) - 1 <= Len(s)
    /\ SubSeq(s, j, j + Len(sep) - 1) = sep

\* str.find: the first position of sep in s, 0 when there is none
Find(s, sep) ==
    LET hits == {j \in 1..Len(s) : MatchAt(s, sep, j)}
    IN  IF hits = {} THEN 0 ELSE CHOOSE j \in hits : \A k \in hits : j <= k

\* str.split(sep): left to right, non-overlapping
RECURSIVE Split(_, _)
Split(s, sep) ==
    LET j == Find(s, sep)
    IN  IF j = 0
        THEN <<s>>
        ELSE <<SubSeq(s, 1, j - 1)>> \o Split(SubSeq(s, j + Len(sep), Len(s)), sep)

\* str.strip()
Strip(s) ==
    LET solid == {j \in 1..Len(s) : s[j] \notin Whitespace}
    IN  IF solid = {}
        THEN <<>>
        ELSE LET lo == CHOOSE j \in solid : \A k \in solid : j <= k
                 hi == CHOOSE j \in solid : \A k \in solid : j >= k
             IN  SubSeq(s, lo, hi)

\* the last element of a Python list (xs[-1])
Last(xs) == xs[Len(xs)]

(***************************************************************************)
(* Values of a call: a returned value or a raised exception                *)
(***************************************************************************)
Returned(v) == [raised |-> FALSE, exc |-> "", msg |-> <<>>, value |-> v]

Raised(c, m) == [raised |-> TRUE, exc |-> c, msg |-> m, value |-> <<>>]

(***************************************************************************)
(* get_image_base64                                                        *)
(***************************************************************************)
B64_ALPHABET == <<"A","B","C","D","E","F","G","H","I","J","K","L","M","N","O","P","Q","R","S","T","U","V","W","X","Y","Z","a","b","c","d","e","f","g","h","i","j","k","l","m","n","o","p","q","r","s","t","u","v","w","x","y","z","0","1","2","3","4","5","6","7","8","9","+","/">>

\* base64.b64encode(img_bytes).decode('utf-8'): three bytes to four characters,
\* '=' padding on a short last group
RECURSIVE b64encode(_)
b64encode(bs) ==
    IF bs = <<>>
    THEN <<>>
    ELSE LET n  == Len(bs)
             b1 == bs[1]
             b2 == IF n >= 2 THEN bs[2] ELSE 0
             b3 == IF n >= 3 THEN bs[3] ELSE 0
             c1 == b1 \div 4
             c2 == (b1 % 4) * 16 + (b2 \div 16)
             c3 == (b2 % 16) * 4 + (b3 \div 64)
             c4 == b3 % 64
         IN  <<B64_ALPHABET[c1 + 1], B64_ALPHABET[c2 + 1]>>
             \o (IF n >= 2 THEN <<B64_ALPHABET[c3 + 1]>> ELSE <<"=">>)
             \o (IF n >= 3 THEN <<B64_ALPHABET[c4 + 1]>> ELSE <<"=">>)
             \o b64encode(SubSeq(bs, 4, n))

get_image_base64(uploaded_file) == b64encode(uploaded_file.data)

(***************************************************************************)
(* generate_prompt                                                         *)
(***************************************************************************)
BASE_1 == "\nAnalyze the attached image which is a '"

BASE_2 == "' file. You are a helpful digital marketing assistant.\nFirst, identify the main subjects, themes, and details of the image.\nThen, generate the required metadata for the platform '"

BASE_3 == "'.\nAlso, suggest a search engine optimized (SEO) filename for the image, using hyphens (e.g., 'a-cute-cat-on-a-sofa.jpg').\n\n"

MICROSTOCK_TEMPLATE == "\nPLATFORM: Microstock\n\nTask 1: Generate two commercial-friendly, keyword-rich titles (under 200 characters).\nTask 2: Generate 40 relevant, comma-separated keywords (lowercase, mix of single and double-word). Put the most important keywords first.\nTask 3: Suggest one category for Adobe Stock and one for Shutterstock.\n\nOUTPUT FORMAT: Structure your response using these exact headers:\n\n### SEO Filename\n[Your filename]\n\n### Title 1\n[Your title]\n\n### Title 2\n[Your title]\n\n### Keywords\n[keywords, here, comma, separated]\n\n### Adobe Stock Category\n[Category]\n\n### Shutterstock Categories\n[Category]\n"

PINTEREST_TASKS == "\nPLATFORM: Pinterest\n\nTask 1: Generate a catchy Pin Title (max 100 chars).\nTask 2: Generate an engaging Pin Description (max 500 chars) with 3-5 relevant hashtags at the end.\nTask 3: Suggest a relevant Alt Tag.\nTask 4: Suggest a Pinterest Board Name.\n"

PINTEREST_CTA == "IMPORTANT: Include this CTA in the Pin Description: '"

PINTEREST_FORMAT == "\nOUTPUT FORMAT: Structure your response using these exact headers:\n\n### SEO Filename\n[Your filename]\n\n### Pin Title\n[Your title]\n\n### Pin Description\n[Your description with #hashtags]\n\n### Alt Tag\n[Your alt tag]\n\n### Suggested Board Name\n[Your board name]\n"

SOCIAL_PLATFORM == "\nPLATFORM: "

SOCIAL_TASKS == "\n\nTask 1: Write an engaging caption for the post.\nTask 2: Generate 5-10 relevant hashtags.\n"

SOCIAL_CTA == "IMPORTANT: Include this CTA in your post: '"

SOCIAL_FORMAT == "\nOUTPUT FORMAT: Structure your response using these exact headers:\n\n### SEO Filename\n[Your filename]\n\n### Post Caption\n[Your caption]\n\n### Hashtags\n[#hashtag1, #hashtag2]\n"

CTA_CLOSE == "'\n"

MSG_NAME_ERROR == <<"n","a","m","e"," ","'","b","a","s","e","_","p","a","r","t","'"," ","i","s"," ","n","o","t"," ","d","e","f","i","n","e","d">>

\* the f-string of lines 23-29
base_prompt(p, t) == <<BASE_1, t, BASE_2, p, BASE_3>>

\* reading a name at line 89: the one string generate_prompt has bound, or
\* NameError when the name is bound neither in the function nor at module
\* level (base_part is assigned nowhere in app.py)
LoadName(name, p, t) ==
    IF name = "base_prompt"
    THEN Returned(base_prompt(p, t))
    ELSE Raised("NameError", MSG_NAME_ERROR)

generate_prompt(p, t, cta, text) ==
    IF p = "Microstock"
    THEN Returned(base_prompt(p, t) \o <<MICROSTOCK_TEMPLATE>>)
    ELSE IF p = "Pinterest"
    THEN Returned(base_prompt(p, t) \o <<PINTEREST_TASKS>>
                  \o (IF cta THEN <<PINTEREST_CTA, text, CTA_CLOSE>> ELSE <<>>)
                  \o <<PINTEREST_FORMAT>>)
    ELSE LET base == LoadName("base_part", p, t)
         IN  IF base.raised
             THEN base
             ELSE Returned(base.value \o <<SOCIAL_PLATFORM, p, SOCIAL_TASKS>>
                           \o (IF cta THEN <<SOCIAL_CTA, text, CTA_CLOSE>> ELSE <<>>)
                           \o <<SOCIAL_FORMAT>>)

(***************************************************************************)
(* get_ai_completion                                                       *)
(***************************************************************************)
DIGITS == <<"0","1","2","3","4","5","6","7","8","9">>

\* str() of a non-negative int, as the f-string of line 142 formats it
RECURSIVE IntToStr(_)
IntToStr(n) ==
    IF n < 10 THEN <<DIGITS[n + 1]>> ELSE IntToStr(n \div 10) \o <<DIGITS[(n % 10) + 1]>>

MSG_STR_INDEX == <<"s","t","r","i","n","g"," ","i","n","d","e","x"," ","o","u","t"," ","o","f"," ","r","a","n","g","e">>

MSG_INDEX == <<"l","i","s","t"," ","i","n","d","e","x"," ","o","u","t"," ","o","f"," ","r","a","n","g","e">>

MSG_KEY == <<"0">>

MSG_TIMEOUT == <<"R","e","a","d"," ","t","i","m","e","d"," ","o","u","t","."," ","(","r","e","a","d"," ","t","i","m","e","o","u","t","=","6","0",")">>

MSG_CONNECTION == <<"C","o","n","n","e","c","t","i","o","n"," ","a","b","o","r","t","e","d",".">>

MSG_DECODE == <<"E","x","p","e","c","t","i","n","g"," ","v","a","l","u","e",":"," ","l","i","n","e"," ","1"," ","c","o","l","u","m","n"," ","1"," ","(","c","h","a","r"," ","0",")">>

MSG_NOT_SUBSCRIPTABLE == <<"'"," ","o","b","j","e","c","t"," ","i","s"," ","n","o","t"," ","s","u","b","s","c","r","i","p","t","a","b","l","e">>

MSG_NO_GET == <<"'"," ","o","b","j","e","c","t"," ","h","a","s"," ","n","o"," ","a","t","t","r","i","b","u","t","e"," ","'","g","e","t","'">>

MSG_NO_SPLIT == <<"'"," ","o","b","j","e","c","t"," ","h","a","s"," ","n","o"," ","a","t","t","r","i","b","u","t","e"," ","'","s","p","l","i","t","'">>

\* the Python type name of a decoded JSON value, as it appears in str(e)
TypeName(j) ==
    IF j.t = "null" THEN <<"N","o","n","e","T","y","p","e">>
    ELSE IF j.t = "int" THEN <<"i","n","t">>
    ELSE IF j.t = "str" THEN <<"s","t","r">>
    ELSE IF j.t = "list" THEN <<"l","i","s","t">>
    ELSE <<"d","i","c","t">>

\* response bodies the endpoint may answer with: the body text and what
\* response.json() decodes it to ("invalid": the text is not JSON)
Bodies == <<
    [text |-> <<>>,
     json |-> [t |-> "invalid"]],
    [text |-> <<"S","e","r","v","i","c","e"," ","U","n","a","v","a","i","l","a","b","l","e">>,
     json |-> [t |-> "invalid"]],
    [text |-> <<"{","\"","e","r","r","o","r","\"",":","\"","l","o","a","d","i","n","g","\"","}">>,
     json |-> [t |-> "dict", keys |-> {"error"}, generated_text |-> [t |-> "null"]]],
    [text |-> <<"[","]">>,
     json |-> [t |-> "list", v |-> <<>>]],
    [text |-> <<"[","1","]">>,
     json |-> [t |-> "list", v |-> <<[t |-> "int"]>>]],
    [text |-> <<"n","u","l","l">>,
     json |-> [t |-> "null"]],
    [text |-> <<"7">>,
     json |-> [t |-> "int"]],
    [text |-> <<"\"","o","k","\"">>,
     json |-> [t |-> "str", v |-> <<"o","k">>]],
    [text |-> <<"[","{","}","]">>,
     json |-> [t |-> "list", v |-> <<[t |-> "dict", keys |-> {}, generated_text |-> [t |-> "null"]]>>]],
    [text |-> <<"[","{","\"","g","e","n","e","r","a","t","e","d","_","t","e","x","t","\"",":","n","u","l","l","}","]">>,
     json |-> [t |-> "list", v |-> <<[t |-> "dict", keys |-> {"generated_text"}, generated_text |-> [t |-> "null"]]>>]],
    [text |-> <<"[","{","\"","g","e","n","e","r","a","t","e","d","_","t","e","x","t","\"",":","3","}","]">>,
     json |-> [t |-> "list", v |-> <<[t |-> "dict", keys |-> {"generated_text"}, generated_text |-> [t |-> "int"]]>>]],
    [text |-> <<"[","[","1","]","]">>,
     json |-> [t |-> "list", v |-> <<[t |-> "list", v |-> <<[t |-> "int"]>>]>>]],
    [text |-> <<"[","{","\"","g","e","n","e","r","a","t","e","d","_","t","e","x","t","\"",":","\"","#","#","#"," ","S","E","O"," ","F","i","l","e","n","a","m","e","\\","n","c","a","t",".","j","p","g","\\","n","#","#","#"," ","T","i","t","l","e"," ","1","\\","n","A"," ","c","a","t","\"","}","]">>,
     json |-> [t |-> "list", v |-> <<[t |-> "dict", keys |-> {"generated_text"}, generated_text |-> [t |-> "str", v |-> <<"#","#","#"," ","S","E","O"," ","F","i","l","e","n","a","m","e","\n","c","a","t",".","j","p","g","\n","#","#","#"," ","T","i","t","l","e"," ","1","\n","A"," ","c","a","t">>]]>>]],
    [text |-> <<"[","{","\"","g","e","n","e","r","a","t","e","d","_","t","e","x","t","\"",":","\"","U","S","E","R",":"," ","h","i","\\","n","A","S","S","I","S","T","A","N","T",":"," ","#","#","#"," ","S","E","O"," ","F","i","l","e","n","a","m","e","\\","n","d","o","g",".","j","p","g","\\","n","#","#","#"," ","P","i","n"," ","T","i","t","l","e","\\","n","A"," ","d","o","g","\\","n","\"","}","]">>,
     json |-> [t |-> "list", v |-> <<[t |-> "dict", keys |-> {"generated_text"}, generated_text |-> [t |-> "str", v |-> <<"U","S","E","R",":"," ","h","i","\n","A","S","S","I","S","T","A","N","T",":"," ","#","#","#"," ","S","E","O"," ","F","i","l","e","n","a","m","e","\n","d","o","g",".","j","p","g","\n","#","#","#"," ","P","i","n"," ","T","i","t","l","e","\n","A"," ","d","o","g","\n">>]]>>]],
    [text |-> <<"[","{","\"","g","e","n","e","r","a","t","e","d","_","t","e","x","t","\"",":","\""," ","A"," ","c","a","t","."," ","\"","}","]">>,
     json |-> [t |-> "list", v |-> <<[t |-> "dict", keys |-> {"generated_text"}, generated_text |-> [t |-> "str", v |-> <<" ","A"," ","c","a","t","."," ">>]]>>]]
>>

\* exceptions requests.post raises before any response exists
TransportFaults == <<
    [exc |-> "Timeout", msg |-> MSG_TIMEOUT],
    [exc |-> "ConnectionError", msg |-> MSG_CONNECTION]
>>

StatusCodes == {200, 429, 500, 503}

\* what response.json() raises on a body that is not JSON: requests'
\* JSONDecodeError (a RequestException) or, with older releases of the
\* library, a plain ValueError
DecodeErrors == {"JSONDecodeError", "ValueError"}

\* the outcomes of the POST of lines 125-131
HttpOutcomes ==
    {[kind |-> "response", status_code |-> s, body |-> b, fault |-> 0, decode_exc |-> d] :
        s \in StatusCodes, b \in 1..Len(Bodies), d \in DecodeErrors}

FaultOutcomes ==
    {[kind |-> "fault", status_code |-> 0, body |-> 0, fault |-> f, decode_exc |-> ""] :
        f \in 1..Len(TransportFaults)}

Outcomes == HttpOutcomes \cup FaultOutcomes

\* the request of lines 115 and 125-131
Request(api_key, b64_image, prompt) ==
    [authorization |-> <<"Bearer ", api_key>>,
     inputs |-> <<"USER: ">> \o prompt \o <<"\nASSISTANT:">>,
     image |-> b64_image,
     max_new_tokens |-> 1024,
     timeout |-> 60]

\* lines 136-140 on element 0 of the decoded array
CleanOutput(element) ==
    IF element.t # "dict"
    THEN Raised("AttributeError", <<"'">> \o TypeName(element) \o MSG_NO_GET)
    ELSE LET generated_text ==
                 IF "generated_text" \in element.keys
                 THEN element.generated_text
                 ELSE [t |-> "str", v |-> <<>>]
         IN  IF generated_text.t # "str"
             THEN Raised("AttributeError", <<"'">> \o TypeName(generated_text) \o MSG_NO_SPLIT)
             ELSE Returned(Strip(Last(Split(generated_text.v, ROLE_MARKER))))

\* result[0] of line 136
FirstElement(result) ==
    IF result.t = "list"
    THEN IF result.v = <<>> THEN Raised("IndexError", MSG_INDEX) ELSE CleanOutput(result.v[1])
    ELSE IF result.t = "dict"
    THEN Raised("KeyError", MSG_KEY)
    ELSE IF result.t = "str"
    THEN IF result.v = <<>>
         THEN Raised("IndexError", MSG_STR_INDEX)
         ELSE CleanOutput([t |-> "str", v |-> <<result.v[1]>>])
    ELSE Raised("TypeError", <<"'">> \o TypeName(result) \o MSG_NOT_SUBSCRIPTABLE)

\* the try block, lines 125-142
TryBlock(o) ==
    IF o.kind = "fault"
    THEN Raised(TransportFaults[o.fault].exc, TransportFaults[o.fault].msg)
    ELSE IF o.status_code = 200
    THEN IF Bodies[o.body].json.t = "invalid"
         THEN Raised(o.decode_exc, MSG_DECODE)
         ELSE FirstElement(Bodies[o.body].json)
    ELSE Returned(ERR_STATUS \o IntToStr(o.status_code) \o ERR_RESPONSE \o Bodies[o.body].text)

\* except requests.exceptions.RequestException
IsRequestException(c) == c \in {"Timeout", "ConnectionError", "JSONDecodeError"}

IsException_NoCatchAll(c) == c \in {"ValueError"}

\* except Exception
IsException(c) ==
    c \in {"Timeout", "ConnectionError", "JSONDecodeError", "ValueError", "IndexError",
           "KeyError", "TypeError", "AttributeError", "NameError"}

get_ai_completion(api_key, b64_image, prompt, o) ==
    LET r == TryBlock(o)
    IN  IF ~r.raised THEN r
        ELSE IF IsRequestException(r.exc) THEN Returned(ERR_REQUEST \o r.msg)
        ELSE IF IsException(r.exc) THEN Returned(ERR_UNKNOWN \o r.msg)
        ELSE r

(***************************************************************************)
(* parse_output                                                            *)
(***************************************************************************)
ExtractFilename_FirstHeader(text_output) ==
    LET parts == Split(text_output, SEO_HEADER)
    IN  Strip(Split(parts[IF Len(parts) >= 2 THEN 2 ELSE 1], SECTION_MARK)[1])

\* text_output.split("### SEO Filename")[-1].split("###")[0].strip()
ExtractFilename(text_output) ==
    Strip(Split(Last(Split(text_output, SEO_HEADER)), SECTION_MARK)[1])

\* text_output is a str on every path of the caller, so no operation in the
\* try block raises and the bare except is never entered
parse_output(text_output) ==
    LET extracted == ExtractFilename(text_output)
        filename == IF extracted = <<>> THEN FALLBACK_FILENAME ELSE extracted
    IN  [filename |-> filename, output |-> text_output]

(***************************************************************************)
(* The Streamlit script: widgets, session state and the generation loop    *)
(***************************************************************************)
Platforms == {"Microstock", "Pinterest", "Facebook", "Instagram", "LinkedIn", "X (Twitter)"}

ImageTypes == {"PNG", "JPG", "Vector"}

DEFAULT_CTA == "Learn more on our website!"

\* the secret HF_API_TOKEN: absent ("" by the default of line 165) or set
Tokens == {"", "hf_token"}

\* files a user may upload: a name and the bytes of the file
Files == {[name |-> "cat.png", data |-> <<137, 80, 78, 71>>],
          [name |-> "dog.jpg", data |-> <<255, 216>>]}

Uploads == UNION {[1..n -> Files] : n \in 0..MaxUploads}

\* the endpoint's answers drawn in the generation loop: a well-formed
\* completion and a 503 while the model loads
LoopOutcomes ==
    {o \in Outcomes :
        /\ o.kind = "response"
        /\ o.decode_exc = "JSONDecodeError"
        /\ \/ o.status_code = 200 /\ o.body = 13
           \/ o.status_code = 503 /\ o.body = 3}

NoCall == [fn |-> "none"]

Init ==
    /\ hf_api_key \in Tokens
    /\ platform = "Microstock"
    /\ image_type = "PNG"
    /\ add_cta = FALSE
    /\ cta_text = ""
    /\ uploaded_files = <<>>
    /\ results = <<>>
    /\ pc = "idle"
    /\ i = 0
    /\ banner = "none"
    /\ requests_log = <<>>
    /\ args = NoCall
    /\ ret = NoCall

\* a script run that does not enter the generation branch shows no banner
Rerun ==
    /\ pc = "idle"
    /\ pc' = "idle"
    /\ i' = 0
    /\ banner' = "none"
    /\ UNCHANGED <<results, requests_log, args, ret>>

\* the deployment's secrets are edited between two script runs
SetSecret(k) ==
    /\ Rerun
    /\ hf_api_key' = k
    /\ UNCHANGED <<platform, image_type, add_cta, cta_text, uploaded_files>>

SelectPlatform(p) ==
    /\ Rerun
    /\ platform' = p
    /\ UNCHANGED <<hf_api_key, image_type, add_cta, cta_text, uploaded_files>>

SelectImageType(t) ==
    /\ Rerun
    /\ image_type' = t
    /\ UNCHANGED <<hf_api_key, platform, add_cta, cta_text, uploaded_files>>

\* the checkbox and the text input it reveals
SetCta(b) ==
    /\ Rerun
    /\ add_cta' = b
    /\ cta_text' = IF b THEN DEFAULT_CTA ELSE ""
    /\ UNCHANGED <<hf_api_key, platform, image_type, uploaded_files>>

UploadFiles(fs) ==
    /\ Rerun
    /\ uploaded_files' = fs
    /\ UNCHANGED <<hf_api_key, platform, image_type, add_cta, cta_text>>

TokenMissing_Unchecked(k) == FALSE

\* not hf_api_key
TokenMissing(k) == k = ""

ClearedResults_Kept == results

\* st.session_state['results'] = []
ClearedResults == <<>>

\* the button is pressed: lines 198-203
PressGenerate ==
    /\ pc = "idle"
    /\ IF uploaded_files = <<>>
       THEN /\ banner' = "none"
            /\ i' = 0
            /\ UNCHANGED <<pc, results, requests_log>>
       ELSE IF TokenMissing(hf_api_key)
       THEN /\ banner' = "missing_token"
            /\ i' = 0
            /\ UNCHANGED <<pc, results, requests_log>>
       ELSE /\ banner' = "progress"
            /\ results' = ClearedResults
            /\ requests_log' = <<>>
            /\ i' = 0
            /\ pc' = "loop"
    /\ UNCHANGED <<hf_api_key, platform, image_type, add_cta, cta_text, uploaded_files, args, ret>>

\* the dict of lines 214-217
ResultRecord(uploaded_file, parsed) ==
    [file_name |-> uploaded_file.name,
     image |-> uploaded_file.data,
     suggested_filename |-> parsed.filename,
     output |-> parsed.output]

\* an exception that leaves the script: the run ends with a traceback
Abort ==
    /\ pc' = "idle"
    /\ banner' = "traceback"
    /\ UNCHANGED <<i, results>>

\* one iteration of the loop, lines 205-218
ProcessImage ==
    /\ pc = "loop"
    /\ i < Len(uploaded_files)
    /\ LET uploaded_file == uploaded_files[i + 1]
           b64_image == get_image_base64(uploaded_file)
           prompt == generate_prompt(platform, image_type, add_cta, cta_text)
       IN  IF prompt.raised
           THEN Abort /\ UNCHANGED requests_log
           ELSE \E o \in LoopOutcomes :
                  LET ai_response == get_ai_completion(hf_api_key, b64_image, prompt.value, o)
                      request == Request(hf_api_key, b64_image, prompt.value)
                      sent == [authorization |-> request.authorization,
                               image |-> request.image,
                               file_name |-> uploaded_file.name,
                               outcome |-> o]
                  IN  /\ requests_log' = Append(requests_log, sent)
                      /\ IF ai_response.raised
                         THEN Abort
                         ELSE /\ results' = Append(results,
                                      ResultRecord(uploaded_file, parse_output(ai_response.value)))
                              /\ i' = i + 1
                              /\ UNCHANGED <<pc, banner>>
    /\ UNCHANGED <<hf_api_key, platform, image_type, add_cta, cta_text, uploaded_files, args, ret>>

\* the loop is exhausted: lines 220-221
FinishRun ==
    /\ pc = "loop"
    /\ i = Len(uploaded_files)
    /\ pc' = "idle"
    /\ banner' = "success"
    /\ UNCHANGED <<hf_api_key, platform, image_type, add_cta, cta_text, uploaded_files,
                   results, i, requests_log, args, ret>>

Next ==
    \/ \E k \in Tokens : SetSecret(k)
    \/ \E p \in Platforms : SelectPlatform(p)
    \/ \E t \in ImageTypes : SelectImageType(t)
    \/ \E b \in BOOLEAN : SetCta(b)
    \/ \E fs \in Uploads : UploadFiles(fs)
    \/ PressGenerate
    \/ ProcessImage
    \/ FinishRun

Spec == Init /\ [][Next]_vars

(***************************************************************************)
(* Unit specifications: one call of a function on drawn arguments          *)
(***************************************************************************)
AppIdle ==
    /\ hf_api_key = ""
    /\ platform = "Microstock"
    /\ image_type = "PNG"
    /\ add_cta = FALSE
    /\ cta_text = ""
    /\ uploaded_files = <<>>
    /\ results = <<>>
    /\ pc = "idle"
    /\ i = 0
    /\ banner = "none"
    /\ requests_log = <<>>

\* building blocks of the texts handed to the parser
Pieces == <<SEO_HEADER, SECTION_MARK, <<"#">>, <<"\n">>, <<"a">>, <<"b">>>>

RECURSIVE Concat(_)
Concat(ps) == IF ps = <<>> THEN <<>> ELSE Pieces[Head(ps)] \o Concat(Tail(ps))

PieceLists == UNION {[1..n -> 1..Len(Pieces)] : n \in 0..MaxPieces}

InitParse ==
    /\ AppIdle
    /\ \E ps \in PieceLists : args = [fn |-> "parse_output", text_output |-> Concat(ps)]
    /\ ret = NoCall

CallParseOutput ==
    /\ args.fn = "parse_output"
    /\ ret.fn = "none"
    /\ LET r == parse_output(args.text_output)
       IN  ret' = [fn |-> "parse_output", filename |-> r.filename, output |-> r.output]
    /\ UNCHANGED <<app_vars, args>>

NextParse == CallParseOutput

SpecParse == InitParse /\ [][NextParse]_vars

\* platform strings handed to generate_prompt: the selectbox values and one
\* string the selectbox does not offer
PromptPlatforms == Platforms \cup {"TikTok"}

CtaTexts == {DEFAULT_CTA, "Shop now", ""}

InitPrompt ==
    /\ AppIdle
    /\ \E p \in PromptPlatforms, t \in ImageTypes, b \in BOOLEAN, c \in CtaTexts :
          args = [fn |-> "generate_prompt", platform |-> p, image_type |-> t,
                  add_cta |-> b, cta_text |-> c]
    /\ ret = NoCall

CallGeneratePrompt ==
    /\ args.fn = "generate_prompt"
    /\ ret.fn = "none"
    /\ LET r == generate_prompt(args.platform, args.image_type, args.add_cta, args.cta_text)
       IN  ret' = [fn |-> "generate_prompt", raised |-> r.raised, exc |-> r.exc, value |-> r.value]
    /\ UNCHANGED <<app_vars, args>>

NextPrompt == CallGeneratePrompt

SpecPrompt == InitPrompt /\ [][NextPrompt]_vars

InitClient ==
    /\ AppIdle
    /\ \E f \in Files, o \in Outcomes :
          args = [fn |-> "get_ai_completion", api_key |-> "hf_token",
                  b64_image |-> get_image_base64(f), outcome |-> o]
    /\ ret = NoCall

CallGetAiCompletion ==
    /\ args.fn = "get_ai_completion"
    /\ ret.fn = "none"
    /\ LET prompt == generate_prompt("Microstock", "PNG", FALSE, "").value
           r == get_ai_completion(args.api_key, args.b64_image, prompt, args.outcome)
       IN  ret' = [fn |-> "get_ai_completion", raised |-> r.raised, exc |-> r.exc, value |-> r.value]
    /\ UNCHANGED <<app_vars, args>>

NextClient == CallGetAiCompletion

SpecClient == InitClient /\ [][NextClient]_vars

(***************************************************************************)
(* Properties                                                              *)
(***************************************************************************)
PromptCalled == ret.fn = "generate_prompt"

ClientCalled == ret.fn = "get_ai_completion"

ParseCalled == ret.fn = "parse_output"

Range(f) == {f[k] : k \in DOMAIN f}

SetMin(S) == CHOOSE x \in S : \A y \in S : x <= y

SetMax(S) == CHOOSE x \in S : \A y \in S : x >= y

\* the positions at which the header '### SEO Filename' occurs in s
HeaderPositions(s) == {j \in 1..Len(s) : MatchAt(s, SEO_HEADER, j)}

\* the text between the header at position j and the next '###' (or the end)
SectionText(s, j) ==
    LET from  == j + Len(SEO_HEADER)
        marks == {k \in from..Len(s) : MatchAt(s, SECTION_MARK, k)}
        to    == IF marks = {} THEN Len(s) ELSE SetMin(marks) - 1
    IN  SubSeq(s, from, to)

\* f is the whitespace-trimmed form of m, or the fallback when that is empty
IsFilenameOf(f, m) ==
    \E a \in 0..Len(m), b \in 0..Len(m) :
        /\ a <= b
        /\ \A k \in 1..a : m[k] \in Whitespace
        /\ \A k \in (b + 1)..Len(m) : m[k] \in Whitespace
        /\ LET t == SubSeq(m, a + 1, b)
           IN  /\ t # <<>> => (t[1] \notin Whitespace /\ t[Len(t)] \notin Whitespace)
               /\ f = IF t = <<>> THEN FALLBACK_FILENAME ELSE t

\* a prompt holds the instruction that embeds the CTA text c
EmbedsCta(v, c) ==
    \E k \in 1..(Len(v) - 1) : v[k] \in {PINTEREST_CTA, SOCIAL_CTA} /\ v[k + 1] = c

HasCtaInstruction(v) == \E k \in 1..Len(v) : v[k] \in {PINTEREST_CTA, SOCIAL_CTA}

\* the call of an image did not end at the return of line 140
InferenceFailed(o) ==
    o.kind = "fault" \/ o.status_code # 200 \/ TryBlock(o).raised

\* C1: for every platform other than Microstock and Pinterest, generate_prompt
\* returns the social-caption prompt and does not raise.
C1_SocialFallThrough ==
    (PromptCalled /\ args.platform \notin {"Microstock", "Pinterest"}) =>
        /\ ~ret.raised
        /\ SOCIAL_TASKS \in Range(ret.value)
        /\ SOCIAL_FORMAT \in Range(ret.value)

\* C2: a run that passed the token check ends only after the loop has
\* processed every uploaded image; no step of an image aborts the batch.
C2_BatchNeverAborted ==
    (pc = "idle" /\ banner \in {"success", "traceback"}) =>
        Len(results) = Len(uploaded_files)

\* C3: a completed run holds result records for exactly the images whose
\* inference call did not fail, in upload order; a failed image has no record.
C3_RecordsOnlyForSuccesses ==
    banner = "success" =>
        LET ok == SelectSeq(requests_log, LAMBDA r : ~InferenceFailed(r.outcome))
        IN  /\ Len(results) = Len(ok)
            /\ \A k \in 1..Len(ok) : results[k].file_name = ok[k].file_name

\* C4: a text without the header '### SEO Filename' parses to the fallback
\* filename and the text itself.
C4_FallbackWithoutHeader ==
    (ParseCalled /\ HeaderPositions(args.text_output) = {}) =>
        /\ ret.filename = FALLBACK_FILENAME
        /\ ret.output = args.text_output

\* C5 as stated, the header being the one a search from the start locates:
\* the filename is the trimmed text between the first '### SEO Filename' and
\* the next '###' (fallback when empty), and the text is returned unchanged.
C5_FirstHeaderSection ==
    (ParseCalled /\ HeaderPositions(args.text_output) # {}) =>
        /\ IsFilenameOf(ret.filename,
                        SectionText(args.text_output, SetMin(HeaderPositions(args.text_output))))
        /\ ret.output = args.text_output

\* C5 amended: the filename is the trimmed text between the LAST occurrence of
\* '### SEO Filename' and the next '###' or the end of the text (fallback when
\* empty), and the text is returned unchanged.
C5_LastHeaderSection ==
    (ParseCalled /\ HeaderPositions(args.text_output) # {}) =>
        /\ IsFilenameOf(ret.filename,
                        SectionText(args.text_output, SetMax(HeaderPositions(args.text_output))))
        /\ ret.output = args.text_output

\* a text with two headers whose sections differ has been parsed
C5_Witness ==
    /\ ParseCalled
    /\ Cardinality(HeaderPositions(args.text_output)) = 2
    /\ SectionText(args.text_output, 1) = <<"a">>
    /\ ret.filename = <<"b">>

\* C6: on HTTP 503 the returned message is a warm-up / retry-later message,
\* not the generic 'Error: Received status code ...' message of the other
\* non-200 statuses.
C6_WarmUpMessageOn503 ==
    (ClientCalled /\ args.outcome.kind = "response" /\ args.outcome.status_code = 503) =>
        /\ ~ret.raised
        /\ ~MatchAt(ret.value, ERR_STATUS, 1)

\* C7: whatever the outcome of the POST, get_ai_completion returns a value;
\* no exception leaves it.
C7_NoExceptionEscapes == ClientCalled => ~ret.raised

\* a 200 answer whose JSON is an empty array was turned into a message
C7_Witness ==
    /\ ClientCalled
    /\ args.outcome.kind = "response"
    /\ args.outcome.status_code = 200
    /\ TryBlock(args.outcome).exc = "IndexError"
    /\ ret.value = ERR_UNKNOWN \o MSG_INDEX

\* C8: while the token is empty no step clears or extends the stored results,
\* starts a run or sends a request, and no request ever carries an empty token.
C8_NothingWithoutToken ==
    [][/\ hf_api_key = "" =>
            (results' = results /\ requests_log' = requests_log /\ pc' = "idle")
       /\ \A k \in 1..Len(requests_log') : requests_log'[k].authorization[2] # ""]_vars

\* generate was pressed with uploads and no token while results were stored
C8_Witness ==
    /\ hf_api_key = ""
    /\ banner = "missing_token"
    /\ uploaded_files # <<>>
    /\ results # <<>>

\* C10: the stored results are exactly the records of the latest run that
\* passed the token check: one per processed upload, in upload order, record k
\* carrying the file name of upload k.
C10_ResultsOfLatestRun ==
    /\ Len(results) = Len(requests_log)
    /\ \A k \in 1..Len(results) : results[k].file_name = requests_log[k].file_name
    /\ pc = "loop" => Len(results) = i
    /\ (pc = "loop" \/ banner = "success") =>
          /\ Len(results) <= Len(uploaded_files)
          /\ \A k \in 1..Len(results) :
                /\ results[k].file_name = uploaded_files[k].name
                /\ results[k].image = uploaded_files[k].data
    /\ banner = "success" => Len(results) = Len(uploaded_files)

\* a run over two different files has completed
C10_Witness ==
    /\ banner = "success"
    /\ Len(results) = 2
    /\ results[1].file_name # results[2].file_name

\* C9: the prompt embeds the literal CTA text in an instruction when add_cta
\* is set, and holds no CTA instruction when it is not.
C9_CtaEmbedded ==
    (PromptCalled /\ ~ret.raised) =>
        /\ args.add_cta => EmbedsCta(ret.value, args.cta_text)
        /\ ~args.add_cta => ~HasCtaInstruction(ret.value)

====
